---- MODULE Spec2Model ----
(***************************************************************************)
(* Verification model of the client-side transaction analytics engine of   *)
(* the personal-finance frontend (frontend/src/D3Dashboard.jsx):           *)
(*   - the acquisition controller: the React state data / loading /        *)
(*     processing / retryCount, the polling effect with its retry timer,   *)
(*     fetchTransactions and the navigation handlers;                      *)
(*   - the anomaly detector buildAnomalies, computed in binary floating    *)
(*     point as JavaScript numbers are.                                    *)
(*                                                                         *)
(* React semantics used by the controller model:                           *)
(*   - the state updates made by one handler are committed together and    *)
(*     the effects whose dependencies changed run before any other event   *)
(*     is handled, so a handler, its commit and the effects it triggers    *)
(*     are one step;                                                       *)
(*   - an effect whose dependencies changed first runs the cleanup of its  *)
(*     previous run, then its body; on unmount only the cleanup runs;      *)
(*   - a closure sees the state of the render that created it;             *)
(*   - a state setter called after the component was unmounted changes     *)
(*     nothing.                                                            *)
(***************************************************************************)
EXTENDS Integers, Sequences, FiniteSets, TLC

VARIABLES
    currentPage,   \* App's page state: D3Dashboard is mounted iff "d3-dashboard"
    data,          \* useState([])            D3Dashboard.jsx:6
    loading,       \* useState(true)          D3Dashboard.jsx:7
    processing,    \* useState(false)         D3Dashboard.jsx:8
    retryCount,    \* useState(0)             D3Dashboard.jsx:9
    pollDeps,      \* dependencies the polling effect last ran with (line 38)
    pollTimer,     \* the `timer` handle held by the polling effect's cleanup (0: undefined)
    timers,        \* pending setTimeout callbacks: sequence of [id, rc]
    inflight,      \* fetches awaiting their response: sequence of [isRetry, rc, epoch]
    nextTimerId,   \* handle the next setTimeout returns
    \* history variables (not program state)
    epoch,         \* attempts cancelled so far (refreshes and unmounts)
    refreshes,     \* Refresh presses so far
    nFetch,        \* fetches issued so far
    nResp,         \* responses delivered so far
    seen,          \* classes of the responses delivered so far
    lastResp,      \* the response delivered last, and the fetch it answered
    lastAct,       \* the operation that made the last step
    rcTrace,       \* the values retryCount has taken, in order
    everEmpty,     \* the terminal Empty state has been shown
    \* the anomaly detector and its part of the page
    cleanData,     \* the canonical records handed to buildAnomalies (line 129)
    anomalyMeta,   \* text of #anomalyMeta: [found, threshold]
    anomalyList,   \* children of #anomalyList: [items, placeholder]
    detPc,         \* "ready": buildAnomalies not yet run on cleanData; "done"
    \* the recompute effect and the rest of the page
    tableFilter,   \* useState('highest')    D3Dashboard.jsx:10
    derived,       \* the records of data with the fields lines 113-119 gave them
    pieChart,      \* #pieChart and #pieMeta: [byCat, totalAll]
    lineChart,     \* #lineChart: byDate
    barChart,      \* #barChart: grouped
    scatter,       \* #scatterCategorySelect and #scatterChart:
                   \* [categories, option, selected, points]
    dynamicTable,  \* rows of #dynamicTable
    drawn,         \* the functions that drew on the page in the last step
                   \* that drew, in the order of their calls
    \* DashboardHome (mounted iff currentPage is "dashboard") and its upload
    userId,          \* localStorage user_id ("" when absent)
    showUploadModal, \* useState(false)      DashboardHome.jsx:80
    uploading,       \* useState(false)      DashboardHome.jsx:81
    selectedFile,    \* useState(null)       DashboardHome.jsx:82 (TRUE: a file)
    uploadStatus,    \* useState('')         DashboardHome.jsx:83
    attempts,        \* let attempts = 0     DashboardHome.jsx:143
    uploadPending,   \* what the upload waits for: "none", the answer to the
                     \* "upload", the "checkTimer", the answer to the "status"
                     \* request, or the "redirectTimer"
    \* VisualDashboard (mounted iff currentPage is "visual-dashboard")
    dashboardData,   \* useState(null)       VisualDashboard.jsx:5
    analyticsData,   \* useState(null)       VisualDashboard.jsx:6
    transactions,    \* useState([])         VisualDashboard.jsx:7 (its length)
    visLoading,      \* useState(true)       VisualDashboard.jsx:8  `loading`
    error,           \* useState(null)       VisualDashboard.jsx:9
    fetching         \* calls of fetchAllData awaiting their three responses

ctlVars == <<currentPage, data, loading, processing, retryCount, pollDeps,
             pollTimer, timers, inflight, nextTimerId>>
ctlVarsButPage == <<data, loading, processing, retryCount, pollDeps, pollTimer,
                    timers, inflight, nextTimerId>>
histVarsButAct == <<epoch, refreshes, nFetch, nResp, seen, lastResp, rcTrace, everEmpty>>
histVars == <<epoch, refreshes, nFetch, nResp, seen, lastResp, lastAct,
              rcTrace, everEmpty>>
viewVars == <<tableFilter, derived, pieChart, lineChart, barChart, scatter,
              dynamicTable, drawn>>
detVars == <<cleanData, anomalyMeta, anomalyList, detPc, viewVars>>
homeVars == <<userId, showUploadModal, uploading, selectedFile, uploadStatus,
              attempts, uploadPending>>
visualVars == <<dashboardData, analyticsData, transactions, visLoading, error,
                fetching>>
appVars == <<homeVars, visualVars>>
vars == <<ctlVars, histVars, detVars, appVars>>

----------------------------------------------------------------------------
(* Bounds and program constants *)

MAX_RETRIES == 5

\* Refresh presses explored; each press starts a bounded run of fetches.
MaxRefresh == 2

\* Calls of VisualDashboard's fetchAllData in flight at the same time.
MaxCalls == 2

\* Longest canonical set handed to the anomaly detector.
MaxRecs == 5

\* Longest list of raw records over RecordKinds, and longest list of the
\* family RankLists, that a response carries.
MaxRaw == 3
MaxRankLen == 12

\* Longest canonical set of the family with outliers (OutlierSets), and the
\* largest number of outliers in one of them.
MaxLong == 44
MaxOut == 4

\* Bits of the significand of the model's binary floating point. JavaScript
\* numbers have 53; the model rounds the same way (to nearest, ties to even)
\* at a reduced width, so that every intermediate value fits 32-bit integers.
Prec == 13

----------------------------------------------------------------------------
(* The transaction service *)

\* Raw transactions of a response: category and merchant may be missing ("").
Txn(id, ts, amt, cat, mer) ==
    [transaction_id |-> id, timestamp |-> ts, amount |-> amt,
     category |-> cat, merchant |-> mer]

\* A timestamp of a response: the text of a local date and time of January
\* 2024, "2024-01-DDTHH:MM:00", given by its day, hour and minute fields;
\* a missing one (null, undefined or ""); or a text that is no date.
Iso(d, h, mi) == [kind |-> "iso", day |-> d, hour |-> h, minute |-> mi]
NoTimestamp == [kind |-> "missing", day |-> 0, hour |-> 0, minute |-> 0]
BadTimestamp == [kind |-> "text", day |-> 0, hour |-> 0, minute |-> 0]

\* An amount of a response is the text of a JSON number or a string, as the
\* sequence of its characters.
Txt1250 == <<"1", "2", ".", "5", "0">>
Txt40 == <<"4", "0">>
TxtBad == <<"b", "a", "d">>
Txt07 == <<"0", ".", "7">>
Txt10 == <<"1", "0">>
Txt990 == <<"9", "9", "0">>
Txt1000 == <<"1", "0", "0", "0">>

PayloadA == << Txn(1, Iso(5, 9, 0), Txt1250, "Food", "Cafe") >>
PayloadB == << Txn(7, Iso(5, 20, 0), Txt40, "", ""),
               Txn(8, Iso(6, 10, 0), TxtBad, "Bills", ""),
               Txn(9, Iso(6, 3, 30), Txt1250, "Food", "") >>
\* Records that are all malformed: no date, and no number.
PayloadC == << Txn(4, BadTimestamp, Txt40, "Bills", ""),
               Txn(5, Iso(5, 9, 0), TxtBad, "", "") >>

\* What one call of the service can answer: a network error, a non-2xx
\* status, a body without a transactions field, an empty list, or records.
Outcomes ==
    { [kind |-> "neterr",  txns |-> <<>>],
      [kind |-> "non2xx",  txns |-> <<>>],
      [kind |-> "missing", txns |-> <<>>],
      [kind |-> "empty",   txns |-> <<>>],
      [kind |-> "ok",      txns |-> PayloadA],
      [kind |-> "ok",      txns |-> PayloadB],
      [kind |-> "ok",      txns |-> PayloadC] }

\* fetch rejects, or response.ok is false and line 51 throws
Throws(o) == o.kind \in {"neterr", "non2xx"}

\* line 56: result.transactions && result.transactions.length > 0
HasRecords(o) == o.kind = "ok" /\ Len(o.txns) > 0

OutcomeClass(o) ==
    IF Throws(o) THEN "fail" ELSE IF HasRecords(o) THEN "data" ELSE "zero"

\* lines 57-63: the map over result.transactions
Transform(txns) ==
    [i \in 1..Len(txns) |->
        [transaction_id |-> txns[i].transaction_id,
         timestamp      |-> txns[i].timestamp,
         amount         |-> txns[i].amount,
         category       |-> IF txns[i].category = "" THEN "Other" ELSE txns[i].category,
         merchant       |-> txns[i].merchant]]

----------------------------------------------------------------------------
(* JavaScript numbers: binary floating point with a Prec-bit significand,
   every operation rounded to nearest, ties to even. A number is
   [s, m, e] = s * m * 2^e with s in {1, -1} and 2^(Prec-1) <= m < 2^Prec,
   or zero (m = 0); s = 0 stands for NaN / undefined and m = -1 for an
   infinity of sign s. The exponent range is not modelled (no overflow to
   infinity, no subnormals). *)

RECURSIVE BitLen(_)
BitLen(n) == IF n = 0 THEN 0 ELSE 1 + BitLen(n \div 2)

Abs(n) == IF n < 0 THEN -n ELSE n
Sign(n) == IF n < 0 THEN -1 ELSE 1

FZero == [s |-> 1, m |-> 0, e |-> 0]
FNaN == [s |-> 0, m |-> 0, e |-> 0]
IsNaN(x) == x.s = 0
FInf(s) == [s |-> s, m |-> -1, e |-> 0]
IsInf(x) == x.s # 0 /\ x.m = -1

\* The number nearest to s * (M * 2^E + d), where d = 0, or 0 < d < 2^E when
\* sticky (then M has at least Prec + 1 bits).
RoundF(s, M, E, sticky) ==
    IF M = 0 THEN FZero
    ELSE LET k == BitLen(M) - Prec IN
         IF k <= 0 THEN [s |-> s, m |-> M * 2^(-k), e |-> E + k]
         ELSE LET q == M \div 2^k
                  r == M % 2^k
                  half == 2^(k - 1)
                  up == r > half \/ (r = half /\ (sticky \/ q % 2 = 1))
                  q2 == IF up THEN q + 1 ELSE q
              IN IF q2 = 2^Prec
                 THEN [s |-> s, m |-> 2^(Prec - 1), e |-> E + k + 1]
                 ELSE [s |-> s, m |-> q2, e |-> E + k]

FromInt(n) == RoundF(Sign(n), Abs(n), 0, FALSE)

FNeg(a) == IF a.m = 0 THEN a ELSE [a EXCEPT !.s = -a.s]

\* a + b
FAdd(a, b) ==
    IF IsNaN(a) \/ IsNaN(b) THEN FNaN
    ELSE IF IsInf(a) THEN (IF IsInf(b) /\ b.s # a.s THEN FNaN ELSE a)
    ELSE IF IsInf(b) THEN b
    ELSE IF a.m = 0 THEN b
    ELSE IF b.m = 0 THEN a
    ELSE LET hi == IF a.e >= b.e THEN a ELSE b
             lo == IF a.e >= b.e THEN b ELSE a
             d == hi.e - lo.e
         IN IF d > Prec + 1 THEN hi   \* lo is below a quarter of hi's last place
            ELSE LET sum == hi.s * hi.m * 2^d + lo.s * lo.m
                 IN RoundF(Sign(sum), Abs(sum), lo.e, FALSE)

\* a - b
FSub(a, b) == FAdd(a, FNeg(b))

\* a * b
FMul(a, b) ==
    IF IsNaN(a) \/ IsNaN(b) THEN FNaN
    ELSE IF IsInf(a) \/ IsInf(b)
    THEN (IF a.m = 0 \/ b.m = 0 THEN FNaN ELSE FInf(a.s * b.s))
    ELSE RoundF(a.s * b.s, a.m * b.m, a.e + b.e, FALSE)

\* a / b, b # 0
FDiv(a, b) ==
    IF IsNaN(a) \/ IsNaN(b) THEN FNaN
    ELSE IF IsInf(a) THEN (IF IsInf(b) THEN FNaN ELSE FInf(a.s * b.s))
    ELSE IF IsInf(b) THEN FZero
    ELSE LET n == a.m * 2^(Prec + 2)
         IN RoundF(a.s * b.s, n \div b.m, a.e - b.e - (Prec + 2), n % b.m # 0)

\* The largest r in lo..hi-1 with r * r <= n, given lo * lo <= n < hi * hi.
RECURSIVE ISqrt(_, _, _)
ISqrt(n, lo, hi) ==
    IF hi - lo <= 1 THEN lo
    ELSE LET mid == (lo + hi) \div 2
         IN IF mid * mid <= n THEN ISqrt(n, mid, hi) ELSE ISqrt(n, lo, mid)

\* Math.sqrt(a), a > 0
FSqrt(a) ==
    IF IsInf(a) THEN a ELSE
    LET t == IF (a.e - (Prec + 1)) % 2 = 0 THEN Prec + 1 ELSE Prec + 2
        n == a.m * 2^t
        r == ISqrt(n, 0, 2^(Prec + 1))
    IN RoundF(1, r, (a.e - t) \div 2, r * r # n)

\* a < b; false when either is NaN
FLt(a, b) ==
    /\ ~IsNaN(a) /\ ~IsNaN(b)
    /\ a # b
    /\ IF IsInf(a) \/ IsInf(b)
       THEN (IsInf(a) /\ a.s = -1) \/ (IsInf(b) /\ b.s = 1)
       ELSE LET d == FSub(a, b) IN d.m # 0 /\ d.s = -1

\* The amounts of the canonical sets explored: 10, 1000 and 0.7 as the
\* number parsing "0.7" gives (the nearest one).
F10 == FromInt(10)
F1000 == FromInt(1000)
F07 == FDiv(FromInt(7), FromInt(10))
DetAmounts == {F10, F1000, F07}
F990 == FromInt(990)

----------------------------------------------------------------------------
(* Normalization: initializeDashboard, lines 111-122 *)

Digits == <<"0", "1", "2", "3", "4", "5", "6", "7", "8", "9">>
IsDigit(c) == \E d \in 1..Len(Digits) : Digits[d] = c
DigitVal(c) == (CHOOSE d \in 1..Len(Digits) : Digits[d] = c) - 1
AllDigits(t) == \A i \in 1..Len(t) : IsDigit(t[i])

\* The integer a string of digits denotes.
RECURSIVE DecVal(_)
DecVal(t) ==
    IF t = <<>> THEN 0
    ELSE 10 * DecVal(SubSeq(t, 1, Len(t) - 1)) + DigitVal(t[Len(t)])

TxtInfinity == <<"I", "n", "f", "i", "n", "i", "t", "y">>

\* StringToNumber of an unsigned literal: Infinity, or digits with at most
\* one point and at least one digit (no exponent part in the model);
\* anything else is NaN. The value is the number nearest to the decimal.
UnsignedToNumber(t) ==
    IF t = TxtInfinity THEN FInf(1)
    ELSE LET dots == {i \in 1..Len(t) : t[i] = "."} IN
         IF Cardinality(dots) > 1 THEN FNaN
         ELSE LET p == IF dots = {} THEN Len(t) + 1 ELSE CHOOSE i \in dots : TRUE
                  int == SubSeq(t, 1, p - 1)
                  frac == SubSeq(t, p + 1, Len(t))
              IN IF ~AllDigits(int) \/ ~AllDigits(frac) \/ Len(int) + Len(frac) = 0
                 THEN FNaN
                 ELSE FDiv(FromInt(DecVal(int \o frac)), FromInt(10^Len(frac)))

\* line 116: +d.amount; the empty string is 0
ToNumber(t) ==
    IF t = <<>> THEN FZero
    ELSE IF t[1] = "-" THEN FNeg(UnsignedToNumber(Tail(t)))
    ELSE IF t[1] = "+" THEN UnsignedToNumber(Tail(t))
    ELSE UnsignedToNumber(t)

\* line 134: new Date(ts).getTime(), in minutes of local time from the start
\* of the month; -1 stands for NaN (an invalid date). The hour 24 is accepted
\* with minute 0 and is midnight of the next day.
NaNTime == -1
DateParse(ts) ==
    IF /\ ts.kind = "iso"
       /\ ts.day \in 1..31
       /\ \/ ts.hour \in 0..23 /\ ts.minute \in 0..59
          \/ ts.hour = 24 /\ ts.minute = 0
    THEN (ts.day - 1) * 1440 + ts.hour * 60 + ts.minute
    ELSE NaNTime

\* What parseTimestamp returns for null (line 133, 135).
NullParsed == [valid |-> FALSE, full |-> NaNTime, date |-> NaNTime,
               time |-> [hour |-> 0, minute |-> 0]]

\* lines 132-142
ParseTimestamp(ts) ==
    IF ts.kind = "missing" THEN NullParsed
    ELSE LET dateObj == DateParse(ts) IN
         IF dateObj = NaNTime THEN NullParsed
         ELSE [valid |-> TRUE,
               full |-> dateObj,
               date |-> (dateObj \div 1440) * 1440,
               time |-> [hour |-> (dateObj % 1440) \div 60, minute |-> dateObj % 60]]

\* Mutant of TimeBucket: the upper bounds are inclusive (<= for <).
TimeBucket_Inclusive(timeObj) ==
    IF timeObj.isNull THEN "Unknown"
    ELSE LET h == timeObj.hour IN
         IF h <= 6 THEN "Night"
         ELSE IF h <= 12 THEN "Morning"
         ELSE IF h <= 18 THEN "Afternoon"
         ELSE "Evening"

\* lines 144-151; timeObj = [isNull, hour, minute]
TimeBucket(timeObj) ==
    IF timeObj.isNull THEN "Unknown"
    ELSE LET h == timeObj.hour IN
         IF h < 6 THEN "Night"
         ELSE IF h < 12 THEN "Morning"
         ELSE IF h < 18 THEN "Afternoon"
         ELSE "Evening"

\* lines 113-119: the fields the forEach adds to (or rewrites in) a record
Derive(d) ==
    LET parsedTime == ParseTimestamp(d.timestamp)
        dateOnly == IF parsedTime.valid THEN parsedTime.date ELSE NaNTime
        timeOnly == [isNull |-> ~parsedTime.valid, hour |-> parsedTime.time.hour,
                     minute |-> parsedTime.time.minute]
    IN [transaction_id |-> d.transaction_id,
        timestamp |-> d.timestamp,
        amount |-> d.amount,
        parsedTime |-> parsedTime,
        dateOnly |-> dateOnly,
        timeOnly |-> timeOnly,
        amountNum |-> ToNumber(d.amount),
        category |-> IF d.category = "" THEN "Other" ELSE d.category,
        merchant |-> d.merchant,
        timeBucket |-> TimeBucket(timeOnly)]

ForEachDerive(rawData) == [i \in 1..Len(rawData) |-> Derive(rawData[i])]

\* Mutant of Keep: a record without a valid timestamp is kept.
Keep_AnyTime(d) == ~IsNaN(d.amountNum)

\* line 122: !isNaN(d.amountNum) && d.parsedTime
Keep(d) == ~IsNaN(d.amountNum) /\ d.parsedTime.valid

\* line 122: rawData.filter(...)
CleanData(rawData) == SelectSeq(ForEachDerive(rawData), Keep)

----------------------------------------------------------------------------
(* The anomaly detector, buildAnomalies (lines 365-390), on canonical
   records [transaction_id, amountNum]. d3.mean, d3.deviation and
   d3.descending are those of d3-array. *)

\* d3.mean(data, d => d.amountNum): sum / count, undefined for no values
RECURSIVE SumFrom(_, _, _)
SumFrom(recs, i, acc) ==
    IF i > Len(recs) THEN acc
    ELSE SumFrom(recs, i + 1, FAdd(acc, recs[i].amountNum))

D3Mean(recs) ==
    IF Len(recs) = 0 THEN FNaN
    ELSE FDiv(SumFrom(recs, 1, FZero), FromInt(Len(recs)))

\* d3.variance: Welford's recurrence; w = [count, mean, sum]
RECURSIVE Welford(_, _, _)
Welford(recs, i, w) ==
    IF i > Len(recs) THEN w
    ELSE LET value == recs[i].amountNum
             delta == FSub(value, w.mean)
             count == w.count + 1
             mean == FAdd(w.mean, FDiv(delta, FromInt(count)))
             sum == FAdd(w.sum, FMul(delta, FSub(value, mean)))
         IN Welford(recs, i + 1, [count |-> count, mean |-> mean, sum |-> sum])

\* d3.variance's result: if (count > 1) return sum / (count - 1)
VarianceOf(w) == IF w.count > 1 THEN FDiv(w.sum, FromInt(w.count - 1)) ELSE FNaN

D3Variance(recs) ==
    VarianceOf(Welford(recs, 1, [count |-> 0, mean |-> FZero, sum |-> FZero]))

\* d3.deviation's v ? Math.sqrt(v) : v, followed by line 367's || 0
SqrtOrZero(v) == IF IsNaN(v) \/ v.m = 0 THEN FZero ELSE FSqrt(v)

\* line 367: d3.deviation(...) || 0
Deviation(recs) == SqrtOrZero(D3Variance(recs))

\* Mutant of Threshold: one sigma for three.
Threshold_OneSigma(mean, sd) == FAdd(mean, sd)

\* line 368: mean + 3 * sd
Threshold(mean, sd) == FAdd(mean, FMul(FromInt(3), sd))

\* line 369: d.amountNum > threshold
IsAnomaly(r, threshold) == FLt(threshold, r.amountNum)

\* line 370: .sort((a, b) => d3.descending(a.amountNum, b.amountNum)); the
\* sort is stable: r goes behind every record that is not smaller.
RECURSIVE InsertDesc(_, _)
InsertDesc(sorted, r) ==
    IF sorted = <<>> THEN <<r>>
    ELSE IF FLt(sorted[1].amountNum, r.amountNum) THEN <<r>> \o sorted
    ELSE <<sorted[1]>> \o InsertDesc(Tail(sorted), r)

RECURSIVE SortDesc(_)
SortDesc(recs) ==
    IF recs = <<>> THEN <<>>
    ELSE InsertDesc(SortDesc(SubSeq(recs, 1, Len(recs) - 1)), recs[Len(recs)])

\* lines 369-370
AnomaliesAbove(recs, threshold) ==
    SortDesc(SelectSeq(recs, LAMBDA r : IsAnomaly(r, threshold)))

\* lines 366-370
Anomalies(recs) == AnomaliesAbove(recs, Threshold(D3Mean(recs), Deviation(recs)))

\* Mutant of Top3: the whole list is shown.
Top3_All(anoms) == anoms

\* line 384: anomalies.slice(0, 3)
Top3(anoms) == SubSeq(anoms, 1, IF Len(anoms) < 3 THEN Len(anoms) ELSE 3)

----------------------------------------------------------------------------
(* The rollups, the point set and the ranking: buildPie, buildLine,
   buildTimeBuckets, buildScatter and buildTopAndLowTables, as far as the
   values they draw. d3.sum and d3.rollups are those of d3-array. *)

\* d3.sum: if (value = +value) sum += value, from 0; zeros and NaN are skipped
RECURSIVE D3Sum(_, _, _)
D3Sum(values, i, sum) ==
    IF i > Len(values) THEN sum
    ELSE LET value == values[i]
         IN D3Sum(values, i + 1,
                  IF IsNaN(value) \/ value.m = 0 THEN sum ELSE FAdd(sum, value))

\* The subsequence of xs at the positions where keys has the key k.
AtKey(xs, keys, k) ==
    LET idx == SelectSeq([i \in 1..Len(keys) |-> i], LAMBDA i : keys[i] = k)
    IN [j \in 1..Len(idx) |-> xs[idx[j]]]

\* d3.rollups(data, v => d3.sum(v, d => d.amountNum), key): one [key, total]
\* per distinct key, in the order in which the keys first appear.
D3Rollups(recs, keys) ==
    LET first == SelectSeq([i \in 1..Len(keys) |-> i],
                           LAMBDA i : \A j \in 1..(i - 1) : keys[j] # keys[i])
        amounts == [i \in 1..Len(recs) |-> recs[i].amountNum]
    IN [g \in 1..Len(first) |->
           [key |-> keys[first[g]],
            total |-> D3Sum(AtKey(amounts, keys, keys[first[g]]), 1, FZero)]]

\* Array.prototype.sort with a consistent comparator: the stable sort,
\* lt[i][j] standing for compare(xs[i], xs[j]) < 0.
StableSort(xs, lt) ==
    LET n == Len(xs)
        pos(i) == 1 + Cardinality({j \in 1..n : lt[j][i] \/ (~lt[i][j] /\ j < i)})
    IN [p \in 1..n |-> xs[CHOOSE i \in 1..n : pos(i) = p]]

\* Mutant of BuildPie: the pie is drawn from byCat as the legend sorts it
\* (line 216), largest total first.
BuildPie_LegendOrder(recs) ==
    LET rolled == D3Rollups(recs, [i \in 1..Len(recs) |-> recs[i].category])
        byCat == [g \in 1..Len(rolled) |->
                     [category |-> rolled[g].key, total |-> rolled[g].total]]
    IN [byCat |-> StableSort(byCat, [i \in 1..Len(byCat) |-> [j \in 1..Len(byCat) |->
                                        FLt(byCat[j].total, byCat[i].total)]]),
        totalAll |-> D3Sum([g \in 1..Len(byCat) |-> byCat[g].total], 1, FZero)]

\* lines 154-160: the category rollup as the pie draws it, and the total
BuildPie(recs) ==
    LET rolled == D3Rollups(recs, [i \in 1..Len(recs) |-> recs[i].category])
        byCat == [g \in 1..Len(rolled) |->
                     [category |-> rolled[g].key, total |-> rolled[g].total]]
    IN [byCat |-> byCat,
        totalAll |-> D3Sum([g \in 1..Len(byCat) |-> byCat[g].total], 1, FZero)]

\* Mutant of BuildLine: the sort by date is left out.
BuildLine_Unsorted(recs) ==
    LET rolled == D3Rollups(recs, [i \in 1..Len(recs) |-> recs[i].dateOnly])
    IN [g \in 1..Len(rolled) |-> [date |-> rolled[g].key, total |-> rolled[g].total]]

\* lines 227-229: the daily rollup, keyed by +d.dateOnly, ascending by date
BuildLine(recs) ==
    LET rolled == D3Rollups(recs, [i \in 1..Len(recs) |-> recs[i].dateOnly])
        byDate == [g \in 1..Len(rolled) |->
                      [date |-> rolled[g].key, total |-> rolled[g].total]]
    IN StableSort(byDate, [i \in 1..Len(byDate) |-> [j \in 1..Len(byDate) |->
                              byDate[i].date < byDate[j].date]])

\* line 260: the display order of the time buckets, and order.indexOf(label)
Order == <<"Night", "Morning", "Afternoon", "Evening">>
IndexOf(label) ==
    IF \E i \in 1..Len(Order) : Order[i] = label
    THEN (CHOOSE i \in 1..Len(Order) : Order[i] = label) - 1
    ELSE -1

\* lines 259-262: the comparator of the time-bucket sort
BarLess(a, b) == IndexOf(a.label) - IndexOf(b.label) < 0

\* lines 257-262: the time-bucket rollup
BuildTimeBuckets(recs) ==
    LET rolled == D3Rollups(recs, [i \in 1..Len(recs) |-> recs[i].timeBucket])
        grouped == [g \in 1..Len(rolled) |->
                       [label |-> rolled[g].key, total |-> rolled[g].total]]
    IN StableSort(grouped, [i \in 1..Len(grouped) |-> [j \in 1..Len(grouped) |->
                               BarLess(grouped[i], grouped[j])]])

\* The category strings of the model in the order Array.prototype.sort
\* gives strings (by UTF-16 code units: capitals before small letters).
CodeUnitOrder == <<"All", "Bills", "Food", "Other", "food">>

\* line 290: Array.from(new Set(data.map(d => d.category))).sort()
CategoryDomain(recs) ==
    SelectSeq(CodeUnitOrder, LAMBDA c : \E i \in 1..Len(recs) : recs[i].category = c)

\* line 313: the records renderScatter binds to the points
RenderScatter(recs, filterCat) ==
    IF filterCat # "" /\ filterCat # "All"
    THEN SelectSeq(recs, LAMBDA d : d.category = filterCat)
    ELSE recs

\* line 350: the length of the ranking
RankLimit == 10

Slice(xs, n) == SubSeq(xs, 1, IF Len(xs) < n THEN Len(xs) ELSE n)

\* Mutant of SortedAsc: the descending list reversed (ties in reverse order).
SortedAsc_Reversed(recs) ==
    LET desc == SortDesc(recs) IN [i \in 1..Len(desc) |-> desc[Len(desc) + 1 - i]]

\* line 347: [...data].sort((a, b) => d3.ascending(a.amountNum, b.amountNum))
SortedAsc(recs) ==
    StableSort(recs, [i \in 1..Len(recs) |-> [j \in 1..Len(recs) |->
                         FLt(recs[i].amountNum, recs[j].amountNum)]])

\* lines 347-350: the rows handed to fillTable
BuildTopAndLowTables(recs, filter) ==
    IF filter = "highest" THEN Slice(SortDesc(recs), RankLimit)
    ELSE Slice(SortedAsc(recs), RankLimit)

----------------------------------------------------------------------------
(* The component *)

Mounted == currentPage = "d3-dashboard"

\* The state as a record, to pass it through the handlers.
State == [data |-> data, loading |-> loading, processing |-> processing,
          retryCount |-> retryCount]

\* Mutant of SetState: the state outlives the component (a module-level store).
SetState_Unmounted(new) == new

\* A state setter takes effect only while the component is mounted.
SetState(new) == IF Mounted THEN new ELSE State

\* lines 400-421: which of the three views the render returns
View(st) ==
    IF st.loading \/ (st.processing /\ Len(st.data) = 0) THEN "loading"
    ELSE IF Len(st.data) = 0 THEN "empty"
    ELSE "dashboard"

\* The controller state the render exposes to the caller: the loading view
\* shows "Still processing" (Retrying) or "Loading your dashboard", the
\* second view is "No Data Available", the third is the dashboard.
ExposedState(st) ==
    CASE View(st) = "loading" /\ st.processing -> "Retrying"
      [] View(st) = "loading"                  -> "Loading"
      [] View(st) = "empty"                    -> "Empty"
      [] OTHER                                 -> "Ready"

\* line 38: the polling effect's dependency array
Deps(st) == <<st.processing, st.retryCount, Len(st.data)>>

\* Mutant of PollingArms: the bound on retryCount is forgotten.
PollingArms_Unbounded(st) == st.processing /\ Len(st.data) = 0

\* line 29: the condition under which the polling effect arms a retry timer
PollingArms(st) ==
    st.processing /\ st.retryCount < MAX_RETRIES /\ Len(st.data) = 0

\* Mutant of PollingExhausted: off by one (> for >=).
PollingExhausted_OffByOne(st) == st.retryCount > MAX_RETRIES

\* line 33: the condition under which it ends the polling
PollingExhausted(st) == st.retryCount >= MAX_RETRIES

\* Mutant of ClearTimeout: the effect returns no cleanup.
ClearTimeout_Missing(ts, handle) == ts

\* line 37: clearTimeout(timer) with the handle of that effect run
ClearTimeout(ts, handle) == SelectSeq(ts, LAMBDA t : t.id # handle)

\* A sequence without its i-th element.
Remove(s, i) == [j \in 1..(Len(s) - 1) |-> IF j < i THEN s[j] ELSE s[j + 1]]

\* Mutant of TimerFired: setInterval for setTimeout, the timer stays armed.
TimerFired_Interval(ts, i) == ts

\* line 30: setTimeout is one-shot, the timer is gone once it has fired
TimerFired(ts, i) == Remove(ts, i)

\* Mutant of Bump: the counter is never incremented.
Bump_Never(isRetry, rc) == rc

\* Mutant of Bump: the counter is incremented on every attempt.
Bump_Always(isRetry, rc) == rc + 1

\* lines 73, 83: if (isRetry) setRetryCount(prev => prev + 1)
Bump(isRetry, rc) == IF isRetry THEN rc + 1 ELSE rc

\* A commit: c = [st, deps, timer, timers, nextId]. While the dependencies of
\* the polling effect differ from those of its last run, run its cleanup and
\* its body (lines 27-38); the body's own setState calls commit again.
RECURSIVE Commit(_)
Commit(c) ==
    IF Deps(c.st) = c.deps THEN c
    ELSE LET cleared == ClearTimeout(c.timers, c.timer) IN
         IF PollingArms(c.st)
         THEN Commit([st |-> c.st, deps |-> Deps(c.st), timer |-> c.nextId,
                      timers |-> Append(cleared, [id |-> c.nextId, rc |-> c.st.retryCount]),
                      nextId |-> c.nextId + 1])
         ELSE IF PollingExhausted(c.st)
         THEN Commit([st |-> [c.st EXCEPT !.processing = FALSE, !.loading = FALSE],
                      deps |-> Deps(c.st), timer |-> 0, timers |-> cleared,
                      nextId |-> c.nextId])
         ELSE Commit([st |-> c.st, deps |-> Deps(c.st), timer |-> 0,
                      timers |-> cleared, nextId |-> c.nextId])

\* The commit that follows the state update `new` in the current state.
Committed(new) ==
    Commit([st |-> new, deps |-> pollDeps, timer |-> pollTimer,
            timers |-> timers, nextId |-> nextTimerId])

\* lines 41-45: a fresh (non-retry) attempt resets the controller
Reset(st, isRetry) ==
    IF isRetry THEN st
    ELSE [st EXCEPT !.loading = TRUE, !.retryCount = 0, !.processing = FALSE]

\* Mutant of OnResponse: a response with a malformed record counts as an
\* attempt without data.
OnResponse_CountsMalformed(st, f, o) ==
    IF Throws(o) THEN
        IF f.rc < MAX_RETRIES
        THEN [st EXCEPT !.processing = TRUE,
                        !.retryCount = Bump(f.isRetry, st.retryCount)]
        ELSE [st EXCEPT !.loading = FALSE, !.processing = FALSE]
    ELSE IF HasRecords(o) /\ Len(CleanData(Transform(o.txns))) = Len(o.txns) THEN
        [st EXCEPT !.data = Transform(o.txns), !.loading = FALSE, !.processing = FALSE]
    ELSE
        IF f.isRetry \/ f.rc < MAX_RETRIES
        THEN [st EXCEPT !.processing = TRUE, !.loading = FALSE,
                        !.retryCount = Bump(f.isRetry, st.retryCount)]
        ELSE [st EXCEPT !.loading = FALSE, !.processing = FALSE]

\* lines 54-88: the continuation of fetchTransactions after the await, for
\* the fetch f = [isRetry, rc] (rc: the retryCount its closure sees) and the
\* service's answer o.
OnResponse(st, f, o) ==
    IF Throws(o) THEN
        \* lines 79-88
        IF f.rc < MAX_RETRIES
        THEN [st EXCEPT !.processing = TRUE,
                        !.retryCount = Bump(f.isRetry, st.retryCount)]
        ELSE [st EXCEPT !.loading = FALSE, !.processing = FALSE]
    ELSE IF HasRecords(o) THEN
        \* lines 56-67
        [st EXCEPT !.data = Transform(o.txns), !.loading = FALSE, !.processing = FALSE]
    ELSE
        \* lines 68-78
        IF f.isRetry \/ f.rc < MAX_RETRIES
        THEN [st EXCEPT !.processing = TRUE, !.loading = FALSE,
                        !.retryCount = Bump(f.isRetry, st.retryCount)]
        ELSE [st EXCEPT !.loading = FALSE, !.processing = FALSE]

\* The terminal Empty state: nothing loading, nothing processing, no data.
IsEmpty(st) == ~st.loading /\ ~st.processing /\ Len(st.data) = 0

Trace(tr, rc) == IF tr[Len(tr)] = rc THEN tr ELSE Append(tr, rc)

NoResp == [kind |-> "none", txns |-> <<>>, isRetry |-> FALSE, rc |-> 0,
           epoch |-> 0, live |-> FALSE]

----------------------------------------------------------------------------
(* Initial state: the component has just been mounted. The first render has
   the useState defaults, the mount effect (lines 16-18) has called
   fetchTransactions() and the polling effect has run once without arming. *)

CtlInit ==
    /\ data = <<>>
    /\ loading = TRUE
    /\ processing = FALSE
    /\ retryCount = 0
    /\ pollDeps = <<FALSE, 0, 0>>
    /\ pollTimer = 0
    /\ timers = <<>>
    /\ inflight = << [isRetry |-> FALSE, rc |-> 0, epoch |-> 0] >>
    /\ nextTimerId = 1
    /\ epoch = 0
    /\ refreshes = 0
    /\ nFetch = 1
    /\ nResp = 0
    /\ seen = {}
    /\ lastResp = NoResp
    /\ lastAct = "Mount"
    /\ rcTrace = <<0>>
    /\ everEmpty = FALSE

\* The page before any recompute: both anomaly elements are empty (lines 509, 511).
NoMeta == [text |-> "", found |-> 0, threshold |-> FNaN]
NoList == [items |-> <<>>, placeholder |-> FALSE]

\* The first render: the toggle is on Highest (line 10) and nothing is drawn.
NoPie == [byCat |-> <<>>, totalAll |-> FZero]
NoScatter == [categories |-> <<>>, option |-> 0, selected |-> "All", points |-> <<>>]

ViewInit ==
    /\ tableFilter = "highest"
    /\ derived = <<>>
    /\ pieChart = NoPie
    /\ lineChart = <<>>
    /\ barChart = <<>>
    /\ scatter = NoScatter
    /\ dynamicTable = <<>>
    /\ drawn = <<>>

\* DashboardHome.jsx:80-83: the useState defaults of DashboardHome; no
\* upload has been started.
HomeInit ==
    /\ showUploadModal = FALSE
    /\ uploading = FALSE
    /\ selectedFile = FALSE
    /\ uploadStatus = ""
    /\ attempts = 0
    /\ uploadPending = "none"

\* VisualDashboard.jsx:5-9: the useState defaults of VisualDashboard; null is
\* written "null".
VisualInit ==
    /\ dashboardData = "null"
    /\ analyticsData = "null"
    /\ transactions = 0
    /\ visLoading = TRUE
    /\ error = "null"
    /\ fetching = 0

\* D3Dashboard at its first render.
D3Init ==
    /\ CtlInit
    /\ ViewInit
    /\ cleanData = <<>>
    /\ anomalyMeta = NoMeta
    /\ anomalyList = NoList
    /\ detPc = "idle"

Init ==
    /\ currentPage = "d3-dashboard"
    /\ userId = "u1"
    /\ D3Init
    /\ HomeInit
    /\ VisualInit

\* lines 372-389: what buildAnomalies writes to #anomalyMeta and #anomalyList
Published(threshold, anomalies) ==
    IF Len(anomalies) > 0
    THEN [meta |-> [text |-> "Threshold, Found", found |-> Len(anomalies),
                    threshold |-> threshold],
          list |-> [items |-> Top3(anomalies), placeholder |-> FALSE]]
    ELSE [meta |-> [text |-> "No strong outliers found", found |-> 0,
                    threshold |-> FNaN],
          list |-> [items |-> <<>>, placeholder |-> TRUE]]

\* lines 368-370
WithThreshold(recs, threshold) ==
    Published(threshold, AnomaliesAbove(recs, threshold))

\* lines 365-390
AnomalyView(recs) == WithThreshold(recs, Threshold(D3Mean(recs), Deviation(recs)))

\* The anomaly card takes the view av.
DrawAnomalies(av) ==
    /\ anomalyMeta' = av.meta
    /\ anomalyList' = av.list

\* Mutant of Builders: the ranking is built before the charts.
Builders_RankingFirst ==
    <<"buildTopAndLowTables", "buildPie", "buildLine", "buildTimeBuckets",
      "buildScatter", "buildAnomalies">>

\* lines 124-129: the calls of initializeDashboard, in order
Builders ==
    <<"buildPie", "buildLine", "buildTimeBuckets", "buildScatter",
      "buildTopAndLowTables", "buildAnomalies">>

\* lines 293-294: the join gives the category options, by position, the
\* categories as values; the select keeps the position of its selected
\* option, or falls back to its first option, All, when that option is gone.
Rejoin(sc, categories) ==
    [categories |-> categories,
     option |-> IF sc.option <= Len(categories) THEN sc.option ELSE 0,
     selected |-> IF sc.option = 0 \/ sc.option > Len(categories) THEN "All"
                  ELSE categories[sc.option],
     points |-> sc.points]

\* lines 124-129: the dashboard view is redrawn from cleanData
Redraw(clean, filter) ==
    /\ pieChart' = BuildPie(clean)
    /\ lineChart' = BuildLine(clean)
    /\ barChart' = BuildTimeBuckets(clean)
    /\ scatter' = [Rejoin(scatter, CategoryDomain(clean))
                       EXCEPT !.points = RenderScatter(clean, "All")]
    /\ dynamicTable' = BuildTopAndLowTables(clean, filter)
    /\ DrawAnomalies(AnomalyView(clean))
    /\ drawn' = Builders

\* lines 112-129 with the records given their derived fields
Initialize(st, withFields, filter) ==
    /\ derived' = withFields
    /\ cleanData' = SelectSeq(withFields, Keep)
    /\ IF View(st) = "dashboard"
       THEN Redraw(SelectSeq(withFields, Keep), filter)
       ELSE UNCHANGED <<pieChart, lineChart, barChart, scatter, dynamicTable,
                        anomalyMeta, anomalyList, drawn>>

\* Mutant of EffectDeps: the recompute effect depends on data alone.
EffectDeps_DataOnly(dataSet, filter) == dataSet

\* line 24: the recompute effect re-runs when data was set or tableFilter
\* has changed
EffectDeps(dataSet, filter) == dataSet \/ filter # tableFilter

\* lines 20-24 and 111-130: the recompute effect after a commit with the
\* state st and the toggle at filter. initializeDashboard gives the records
\* of data their derived fields and, where the dashboard view is rendered,
\* redraws every chart from cleanData, the scatter with all points.
Recompute(st, dataSet, filter) ==
    IF EffectDeps(dataSet, filter) /\ Len(st.data) > 0
    THEN Initialize(st, ForEachDerive(st.data), filter)
    ELSE UNCHANGED <<derived, cleanData, pieChart, lineChart, barChart, scatter,
                     dynamicTable, anomalyMeta, anomalyList, drawn>>

\* Apply a committed result c to the component's variables.
Install(c) ==
    /\ data' = c.st.data
    /\ loading' = c.st.loading
    /\ processing' = c.st.processing
    /\ retryCount' = c.st.retryCount
    /\ pollDeps' = c.deps
    /\ pollTimer' = c.timer
    /\ timers' = c.timers
    /\ nextTimerId' = c.nextId
    /\ rcTrace' = Trace(rcTrace, c.st.retryCount)
    /\ everEmpty' = (everEmpty \/ IsEmpty(c.st))

\* The response of the i-th fetch in flight arrives with answer o.
Respond(i, o) ==
    LET f == inflight[i]
        c == Committed(SetState(OnResponse(State, f, o)))
    IN /\ Install(c)
       /\ inflight' = Remove(inflight, i)
       /\ nResp' = nResp + 1
       /\ seen' = seen \cup {OutcomeClass(o)}
       /\ lastResp' = [kind |-> o.kind, txns |-> o.txns, isRetry |-> f.isRetry,
                       rc |-> f.rc, epoch |-> f.epoch, live |-> Mounted]
       /\ lastAct' = "Respond"
       /\ Recompute(c.st, Mounted /\ HasRecords(o) /\ ~Throws(o), tableFilter)
       /\ UNCHANGED <<appVars, currentPage, epoch, refreshes, nFetch, detPc, tableFilter>>

\* lines 30-32: a pending retry timer fires and calls fetchTransactions(true)
\* of the render that armed it.
TimerFires(i) ==
    /\ inflight' = Append(inflight, [isRetry |-> TRUE, rc |-> timers[i].rc, epoch |-> epoch])
    /\ timers' = TimerFired(timers, i)
    /\ nFetch' = nFetch + 1
    /\ lastAct' = "TimerFires"
    /\ UNCHANGED <<appVars, currentPage, data, loading, processing, retryCount, pollDeps,
                   pollTimer, nextTimerId, epoch, refreshes, nResp, seen, lastResp,
                   rcTrace, everEmpty, detVars>>

\* line 417: the Refresh button of the "No Data Available" view calls
\* fetchTransactions() of the current render.
Refresh ==
    /\ Mounted
    /\ View(State) = "empty"
    /\ refreshes < MaxRefresh
    /\ Install(Committed(SetState(Reset(State, FALSE))))
    /\ inflight' = Append(inflight, [isRetry |-> FALSE, rc |-> retryCount, epoch |-> epoch + 1])
    /\ epoch' = epoch + 1
    /\ refreshes' = refreshes + 1
    /\ nFetch' = nFetch + 1
    /\ lastAct' = "Refresh"
    /\ UNCHANGED <<appVars, currentPage, nResp, seen, lastResp, detVars>>

\* Unmounting runs the polling effect's cleanup (line 37).
Unmount(page) ==
    /\ currentPage' = page
    /\ timers' = ClearTimeout(timers, pollTimer)
    /\ epoch' = epoch + 1
    /\ UNCHANGED <<appVars, data, loading, processing, retryCount, pollDeps, pollTimer, inflight,
                   nextTimerId, refreshes, nFetch, nResp, seen, lastResp,
                   rcTrace, everEmpty, detVars>>

\* lines 107-109: Cancel (loading view), Go Back (empty view), Back (dashboard)
HandleBack ==
    /\ Mounted
    /\ Unmount("dashboard")
    /\ lastAct' = "Back"

\* lines 101-105: Logout, a button of the dashboard view only (line 432)
HandleLogout ==
    /\ Mounted
    /\ View(State) = "dashboard"
    /\ Unmount("login")
    /\ lastAct' = "Logout"

\* lines 482-493: a press of the Highest or the Lowest button
SetTableFilter(filter) ==
    /\ Mounted
    /\ View(State) = "dashboard"
    /\ tableFilter' = filter
    /\ Recompute(State, FALSE, filter)
    /\ lastAct' = "Toggle"
    /\ UNCHANGED <<appVars, ctlVars, epoch, refreshes, nFetch, nResp, seen, lastResp,
                   rcTrace, everEmpty, detPc>>

\* lines 293-294, 471: the value of the k-th option of the category select;
\* option 0 is All, the others are the category domain
OptionValue(categories, k) == IF k = 0 THEN "All" ELSE categories[k]

\* line 343: the change handler of the category select, the user having
\* picked its k-th option
SelectCategory(k) ==
    /\ Mounted
    /\ View(State) = "dashboard"
    /\ k \in 0..Len(scatter.categories)
    /\ LET value == OptionValue(scatter.categories, k)
       IN scatter' = [scatter EXCEPT !.option = k, !.selected = value,
                                     !.points = RenderScatter(cleanData, value)]
    /\ drawn' = <<"renderScatter">>
    /\ lastAct' = "Select"
    /\ UNCHANGED <<appVars, ctlVars, epoch, refreshes, nFetch, nResp, seen, lastResp,
                   rcTrace, everEmpty, cleanData, anomalyMeta, anomalyList, detPc,
                   tableFilter, derived, pieChart, lineChart, barChart, dynamicTable>>

DoSetTableFilter == \E filter \in {"highest", "lowest"} : SetTableFilter(filter)
DoSelectCategory == \E k \in 0..Len(CodeUnitOrder) : SelectCategory(k)

DoRespond == \E i \in 1..Len(inflight) : \E o \in Outcomes : Respond(i, o)
DoTimerFires == \E i \in 1..Len(timers) : TimerFires(i)

Next ==
    \/ DoRespond
    \/ DoTimerFires
    \/ Refresh
    \/ HandleBack
    \/ HandleLogout
    \/ DoSetTableFilter
    \/ DoSelectCategory

Spec == Init /\ [][Next]_vars

\* The service answers every call (line 47: the await ends) and the browser
\* runs every timer that stays armed (line 30); the user is free to do nothing.
SpecLive == Init /\ [][Next]_vars /\ WF_vars(DoRespond) /\ WF_vars(DoTimerFires)

----------------------------------------------------------------------------
(* The anomaly detector as a function of its input: any canonical set of up
   to MaxRecs records with amounts of DetAmounts, then buildAnomalies. *)

CanonicalSets ==
    UNION { { [i \in 1..n |-> [transaction_id |-> i, amountNum |-> f[i]]] :
                f \in [1..n -> DetAmounts] } : n \in 0..MaxRecs }

\* Longer canonical sets: n records of amount 10, of which up to k, three
\* positions apart from position p + 1 on, are outliers of amount 1000 and
\* 990 in turn.
OutlierPos(n, k, p) == { ((p + 3 * j) % n) + 1 : j \in 0..(k - 1) }

OutlierSet(n, k, p) ==
    LET pos == OutlierPos(n, k, p)
        rank(i) == Cardinality({q \in pos : q < i})
    IN [i \in 1..n |->
           [transaction_id |-> i,
            amountNum |-> IF i \notin pos THEN F10
                          ELSE IF rank(i) % 2 = 0 THEN F1000 ELSE F990]]

OutlierSets ==
    { OutlierSet(n, k, p) : n \in 11..MaxLong, k \in 0..MaxOut, p \in 0..2 }

InitDetect ==
    /\ currentPage = "d3-dashboard"
    /\ userId = "u1"
    /\ HomeInit
    /\ VisualInit
    /\ CtlInit
    /\ ViewInit
    /\ cleanData \in CanonicalSets \cup OutlierSets
    /\ anomalyMeta = NoMeta
    /\ anomalyList = NoList
    /\ detPc = "ready"

\* lines 365-390
BuildAnomalies ==
    /\ detPc = "ready"
    /\ DrawAnomalies(AnomalyView(cleanData))
    /\ detPc' = "done"
    /\ UNCHANGED <<appVars, ctlVars, histVars, cleanData, viewVars>>

NextDetect == BuildAnomalies

SpecDetect == InitDetect /\ [][NextDetect]_vars

----------------------------------------------------------------------------
(* The recompute as a function of the acquired records: the first response
   carries any list of RawSets, then the user toggles the ranking and selects
   categories. *)

AmountTexts == {Txt1250, Txt40, Txt07, TxtBad, <<>>, TxtInfinity}

Timestamps ==
    {NoTimestamp, BadTimestamp}
        \cup {Iso(d, h, mi) : d \in 5..6, h \in 0..25, mi \in {0, 30}}

Categories == {"", "Food", "Bills", "food", "All"}

\* Every single record.
Singles ==
    { << Txn(1, ts, amt, cat, "") >> :
          ts \in Timestamps, amt \in AmountTexts, cat \in Categories }

\* Records that differ in what the views group, filter and sort by.
RecordKinds ==
    << [ts |-> Iso(5, 9, 0),   amt |-> Txt1250,     cat |-> "Food"],
       [ts |-> Iso(5, 20, 0),  amt |-> Txt40,       cat |-> ""],
       [ts |-> Iso(6, 10, 0),  amt |-> TxtBad,      cat |-> "Bills"],
       [ts |-> Iso(6, 3, 30),  amt |-> Txt40,       cat |-> "Food"],
       [ts |-> Iso(5, 9, 0),   amt |-> Txt07,       cat |-> "Bills"],
       [ts |-> Iso(5, 13, 0),  amt |-> TxtInfinity, cat |-> "Food"],
       [ts |-> BadTimestamp,   amt |-> Txt1250,     cat |-> "All"],
       [ts |-> Iso(5, 23, 30), amt |-> Txt1250,     cat |-> "All"] >>

ShortLists ==
    UNION { { [i \in 1..n |-> Txn(i, RecordKinds[f[i]].ts, RecordKinds[f[i]].amt,
                                  RecordKinds[f[i]].cat, "")] :
                f \in [1..n -> 1..Len(RecordKinds)] } : n \in 1..MaxRaw }

\* Lists longer than the ranking: amounts of 10 with up to two larger ones.
RankList(n, k, p) ==
    LET pos == OutlierPos(n, k, p)
        rank(i) == Cardinality({q \in pos : q < i})
    IN [i \in 1..n |->
           Txn(i, Iso(5 + (i % 2), (7 * i) % 24, 0),
               IF i \notin pos THEN Txt10
               ELSE IF rank(i) % 2 = 0 THEN Txt1000 ELSE Txt990,
               IF i % 3 = 0 THEN "Food" ELSE IF i % 3 = 1 THEN "Bills" ELSE "",
               "")]

RankLists == { RankList(n, k, p) : n \in 11..MaxRankLen, k \in 0..2, p \in 0..2 }

RawSets == Singles \cup ShortLists \cup RankLists

ViewOutcomes == { [kind |-> "ok", txns |-> txns] : txns \in RawSets }

RespondWithRecords == \E o \in ViewOutcomes : inflight # <<>> /\ Respond(1, o)

NextViews ==
    \/ RespondWithRecords
    \/ DoSetTableFilter
    \/ DoSelectCategory

SpecViews == Init /\ [][NextViews]_vars

----------------------------------------------------------------------------
(* DashboardHome (DashboardHome.jsx:79-246): the upload of a CSV file, the
   polling of its processing status and the redirect to the visual
   dashboard. The callbacks of an upload close over setCurrentPage, which is
   App's setter, and over the setters of DashboardHome, which do nothing
   once DashboardHome is unmounted. Nothing cancels them. *)

HomeMounted == currentPage = "dashboard"

\* DashboardHome.jsx:144
maxAttempts == 60

\* The setters of DashboardHome: the new values of uploading, uploadStatus,
\* showUploadModal and selectedFile, taken only while it is mounted.
SetHome(up, status, modal, file) ==
    /\ uploading' = IF HomeMounted THEN up ELSE uploading
    /\ uploadStatus' = IF HomeMounted THEN status ELSE uploadStatus
    /\ showUploadModal' = IF HomeMounted THEN modal ELSE showUploadModal
    /\ selectedFile' = IF HomeMounted THEN file ELSE selectedFile

\* DashboardHome.jsx:266: the Upload New CSV card opens the modal.
OpenModal ==
    /\ HomeMounted /\ ~showUploadModal
    /\ showUploadModal' = TRUE
    /\ lastAct' = "OpenModal"
    /\ UNCHANGED <<currentPage, userId, uploading, selectedFile, uploadStatus,
                   attempts, uploadPending>>

\* DashboardHome.jsx:87-94, with a .csv file
HandleFileSelect ==
    /\ HomeMounted /\ showUploadModal /\ ~uploading
    /\ selectedFile' = TRUE
    /\ lastAct' = "FileSelect"
    /\ UNCHANGED <<currentPage, userId, showUploadModal, uploading, uploadStatus,
                   attempts, uploadPending>>

\* DashboardHome.jsx:96-116: the Upload & Process button (enabled with a file
\* selected and no upload running, line 326)
HandleUploadCSV ==
    /\ HomeMounted /\ showUploadModal /\ selectedFile /\ ~uploading
    /\ IF userId = ""
       THEN /\ currentPage' = "login"
            /\ UNCHANGED <<uploading, uploadPending>>
       ELSE /\ uploading' = TRUE
            /\ uploadPending' = "upload"
            /\ UNCHANGED currentPage
    /\ lastAct' = "Upload"
    /\ UNCHANGED <<userId, showUploadModal, selectedFile, uploadStatus, attempts>>

\* DashboardHome.jsx:118-143, 221-234: the answer to the upload: accepted
\* with an upload_id ("id"), accepted without one ("noid"), refused
\* ("notok"), or the fetch or its body fails ("throws")
UploadResponds(o) ==
    /\ uploadPending = "upload"
    /\ CASE o = "id" ->
              /\ SetHome(uploading, uploadStatus, FALSE, FALSE)
              /\ attempts' = 0
              /\ uploadPending' = "checkTimer"
         [] o = "noid" ->
              /\ SetHome(uploading, uploadStatus, FALSE, FALSE)
              /\ uploadPending' = "redirectTimer"
              /\ UNCHANGED attempts
         [] OTHER ->
              /\ SetHome(FALSE, uploadStatus, showUploadModal, selectedFile)
              /\ uploadPending' = "none"
              /\ UNCHANGED attempts
    /\ lastAct' = "UploadResponds"
    /\ UNCHANGED <<currentPage, userId>>

\* DashboardHome.jsx:146-149: a check timer fires and checkStatus asks for
\* the status
CheckStatus ==
    /\ uploadPending = "checkTimer"
    /\ SetHome(uploading, "Checking", showUploadModal, selectedFile)
    /\ uploadPending' = "status"
    /\ lastAct' = "CheckStatus"
    /\ UNCHANGED <<currentPage, userId, attempts>>

\* DashboardHome.jsx:151-217: the answer to the status request: not ok,
\* "completed", "failed", another status ("processing"), or the fetch or its
\* body fails ("throws")
StatusResponds(o) ==
    /\ uploadPending = "status"
    /\ CASE o = "notok" ->
              /\ SetHome(uploading, "Unavailable", showUploadModal, selectedFile)
              /\ uploadPending' = "redirectTimer"
              /\ UNCHANGED attempts
         [] o = "completed" ->
              /\ SetHome(uploading, "Complete", showUploadModal, selectedFile)
              /\ uploadPending' = "redirectTimer"
              /\ UNCHANGED attempts
         [] o = "failed" ->
              /\ SetHome(FALSE, "", showUploadModal, selectedFile)
              /\ uploadPending' = "none"
              /\ UNCHANGED attempts
         [] o = "processing" /\ attempts < maxAttempts ->
              /\ SetHome(uploading, "Processing", showUploadModal, selectedFile)
              /\ attempts' = attempts + 1
              /\ uploadPending' = "checkTimer"
         [] o = "processing" /\ attempts >= maxAttempts ->
              /\ SetHome(uploading, "Late", showUploadModal, selectedFile)
              /\ uploadPending' = "redirectTimer"
              /\ UNCHANGED attempts
         [] o = "throws" /\ attempts >= 5 ->
              /\ SetHome(uploading, "Redirecting", showUploadModal, selectedFile)
              /\ uploadPending' = "redirectTimer"
              /\ UNCHANGED attempts
         [] OTHER ->
              /\ attempts' = attempts + 1
              /\ uploadPending' = "checkTimer"
              /\ UNCHANGED <<uploading, uploadStatus, showUploadModal, selectedFile>>
    /\ lastAct' = "StatusResponds"
    /\ UNCHANGED <<currentPage, userId>>

\* DashboardHome.jsx:136-139, 155-159, 168-173, 195-200, 207-212: a redirect
\* timer fires
Redirect ==
    /\ uploadPending = "redirectTimer"
    /\ currentPage' = "visual-dashboard"
    /\ SetHome(FALSE, "", showUploadModal, selectedFile)
    /\ uploadPending' = "none"
    /\ lastAct' = "Redirect"
    /\ UNCHANGED <<userId, attempts>>

\* DashboardHome.jsx:237-246: Use Existing Data, and Logout
LeaveHome(page) ==
    /\ HomeMounted
    /\ currentPage' = page
    /\ userId' = IF page = "login" THEN "" ELSE userId
    /\ lastAct' = IF page = "login" THEN "HomeLogout" ELSE "UseExistingData"
    /\ UNCHANGED <<showUploadModal, uploading, selectedFile, uploadStatus,
                   attempts, uploadPending>>

\* DashboardHome has just been mounted, the user signed in or not.
InitHome ==
    /\ currentPage = "dashboard"
    /\ userId \in {"u1", ""}
    /\ D3Init
    /\ HomeInit
    /\ VisualInit

NextHome ==
    \/ (OpenModal /\ UNCHANGED <<ctlVarsButPage, histVarsButAct, detVars, visualVars>>)
    \/ (HandleFileSelect /\ UNCHANGED <<ctlVarsButPage, histVarsButAct, detVars, visualVars>>)
    \/ (HandleUploadCSV /\ UNCHANGED <<ctlVarsButPage, histVarsButAct, detVars, visualVars>>)
    \/ ((\E o \in {"id", "noid", "notok", "throws"} : UploadResponds(o))
           /\ UNCHANGED <<ctlVarsButPage, histVarsButAct, detVars, visualVars>>)
    \/ (CheckStatus /\ UNCHANGED <<ctlVarsButPage, histVarsButAct, detVars, visualVars>>)
    \/ ((\E o \in {"notok", "completed", "failed", "processing", "throws"} :
               StatusResponds(o))
           /\ UNCHANGED <<ctlVarsButPage, histVarsButAct, detVars, visualVars>>)
    \/ (Redirect /\ UNCHANGED <<ctlVarsButPage, histVarsButAct, detVars, visualVars>>)
    \/ ((\E page \in {"login", "visual-dashboard"} : LeaveHome(page))
           /\ UNCHANGED <<ctlVarsButPage, histVarsButAct, detVars, visualVars>>)

SpecHome == InitHome /\ [][NextHome]_vars

----------------------------------------------------------------------------
(* VisualDashboard (VisualDashboard.jsx:4-231): fetchAllData asks three
   endpoints at once and sets the data or an error; the render chooses one
   of five views. A reply is "fails" (the fetch rejects), "404", "500", or
   an ok response: "ok1" or "ok2" (two different bodies) and, for the
   transactions, "ok0" (a body with no transactions) or "okNull" (the body
   null). *)

VisualMounted == currentPage = "visual-dashboard"

OkReplies == {"ok0", "ok1", "ok2", "okNull"}

\* VisualDashboard.jsx:150-231, 301: the view the render returns
VisualView ==
    IF visLoading THEN "Loading"
    ELSE IF error = "no_data" \/ dashboardData = "null" \/ analyticsData = "null"
         THEN "No Data Available"
    ELSE IF error = "no_user" THEN "Session Expired"
    ELSE IF error \in {"network_error", "fetch_error"} THEN "Error Loading Data"
    ELSE "Dashboard"

\* VisualDashboard.jsx:30-46: fetchAllData up to its three fetches, called by
\* handleRefresh (Refresh, Retry and the refresh icon: lines 181, 225, 308)
\* or by the visibilitychange listener (lines 19-28)
FetchAllData(byButton) ==
    /\ VisualMounted
    /\ byButton => VisualView \in {"No Data Available", "Error Loading Data", "Dashboard"}
    /\ fetching < MaxCalls
    /\ IF userId = ""
       THEN /\ error' = "no_user"
            /\ visLoading' = FALSE
            /\ UNCHANGED fetching
       ELSE /\ visLoading' = TRUE
            /\ error' = "null"
            /\ fetching' = fetching + 1
    /\ lastAct' = "FetchAllData"
    /\ UNCHANGED <<currentPage, dashboardData, analyticsData, transactions>>

\* VisualDashboard.jsx:48-103: fetchAllData after its three fetches, with
\* the replies of the dashboard, analytics and transactions endpoints
VisualResponds(rd, ra, rt) ==
    /\ fetching > 0
    /\ fetching' = fetching - 1
    /\ lastAct' = "VisualResponds"
    /\ UNCHANGED currentPage
    /\ IF ~VisualMounted
       THEN UNCHANGED <<dashboardData, analyticsData, transactions, visLoading, error>>
       ELSE /\ visLoading' = FALSE
            /\ IF "fails" \in {rd, ra, rt}
               THEN /\ error' = "network_error"
                    /\ UNCHANGED <<dashboardData, analyticsData, transactions>>
               ELSE IF "404" \in {rd, ra}
               THEN /\ error' = "no_data"
                    /\ UNCHANGED <<dashboardData, analyticsData, transactions>>
               ELSE IF {rd, ra, rt} \subseteq OkReplies
               THEN /\ dashboardData' = rd
                    /\ analyticsData' = ra
                    /\ IF rt = "okNull"
                       THEN /\ error' = "network_error"
                            /\ UNCHANGED transactions
                       ELSE /\ transactions' = (IF rt = "ok0" THEN 0 ELSE 1)
                            /\ UNCHANGED error
               ELSE /\ error' = "fetch_error"
                    /\ UNCHANGED <<dashboardData, analyticsData, transactions>>

\* VisualDashboard.jsx:136-148, 201: Logout (every view), Go to Login
\* (Session Expired) and Go Back (No Data Available, Error Loading Data)
LeaveVisual(page) ==
    /\ VisualMounted
    /\ page = "dashboard" => VisualView \in {"No Data Available", "Error Loading Data"}
    /\ currentPage' = page
    /\ userId' = IF page = "login" THEN "" ELSE userId
    /\ lastAct' = "LeaveVisual"
    /\ UNCHANGED visualVars

\* VisualDashboard after its mount effect (lines 14-16) has called
\* fetchAllData, the user signed in or not.
InitVisual ==
    /\ currentPage = "visual-dashboard"
    /\ userId \in {"u1", ""}
    /\ D3Init
    /\ HomeInit
    /\ dashboardData = "null"
    /\ analyticsData = "null"
    /\ transactions = 0
    /\ visLoading = (userId # "")
    /\ error = IF userId = "" THEN "no_user" ELSE "null"
    /\ fetching = IF userId = "" THEN 0 ELSE 1

NextVisual ==
    \/ ((\E byButton \in BOOLEAN : FetchAllData(byButton))
           /\ UNCHANGED <<ctlVarsButPage, histVarsButAct, detVars, userId,
                          showUploadModal, uploading, selectedFile, uploadStatus,
                          attempts, uploadPending>>)
    \/ ((\E rd, ra \in {"fails", "404", "500", "ok1", "ok2"} :
            \E rt \in {"fails", "404", "500", "ok0", "ok1", "okNull"} :
               VisualResponds(rd, ra, rt))
           /\ UNCHANGED <<ctlVarsButPage, histVarsButAct, detVars, homeVars>>)
    \/ ((\E page \in {"login", "dashboard"} : LeaveVisual(page))
           /\ UNCHANGED <<ctlVarsButPage, histVarsButAct, detVars, showUploadModal,
                          uploading, selectedFile, uploadStatus, attempts,
                          uploadPending>>)

SpecVisual == InitVisual /\ [][NextVisual]_vars

----------------------------------------------------------------------------
(* Claims about the acquisition controller *)

\* Every response delivered so far was a successful one with zero records.
ZeroOnly == seen \subseteq {"zero"}

\* A response with zero records or a failure
ZeroOrFailKinds == {"neterr", "non2xx", "missing", "empty"}

\* C1 (state part): with a service that answers zero records on every call,
\* and before any Refresh, the controller shows the terminal Empty state
\* exactly when retryCount is MAX_RETRIES, and then no retry timer is pending
\* and no fetch is in flight.
C1_EmptyIffExhausted ==
    (ZeroOnly /\ refreshes = 0) =>
        /\ IsEmpty(State) <=> retryCount = MAX_RETRIES
        /\ retryCount = MAX_RETRIES => (timers = <<>> /\ inflight = <<>>)

\* C1 (step part): from the terminal Empty state the next fetch is issued by
\* a press of Refresh and by nothing else.
C1_NoFetchUntilRefresh ==
    (ZeroOnly /\ IsEmpty(State) /\ nFetch' # nFetch) => lastAct' = "Refresh"

\* C1: given a service that returns zero records on every call, the
\* controller reaches the terminal Empty state exactly when retryCount has
\* reached MAX_RETRIES, and from then on no retry timer is pending and no
\* fetch is issued until the user presses Refresh.
C1_EmptyAfterMaxRetries ==
    [](C1_EmptyIffExhausted) /\ [][C1_NoFetchUntilRefresh]_vars

C1_Witness ==
    /\ Mounted /\ ZeroOnly /\ refreshes = 0
    /\ nResp = MAX_RETRIES + 1
    /\ IsEmpty(State) /\ retryCount = MAX_RETRIES

\* C2: when the first MAX_RETRIES calls answered zero records and the next
\* one answers records, the controller is Ready with exactly the (mapped)
\* records of that answer, retryCount took the values 0,1,2,3,4 in that
\* order, and the Empty state was never shown.
C2_ReadyOnSixthCall ==
    (nResp = MAX_RETRIES + 1 /\ seen = {"zero", "data"} /\ lastResp.live) =>
        /\ ExposedState(State) = "Ready"
        /\ data = Transform(lastResp.txns)
        /\ rcTrace = [i \in 1..MAX_RETRIES |-> i - 1]
        /\ ~everEmpty

C2_Witness ==
    /\ nResp = MAX_RETRIES + 1 /\ seen = {"zero", "data"} /\ lastResp.live
    /\ ExposedState(State) = "Ready"
    /\ data = Transform(PayloadB)
    /\ retryCount = MAX_RETRIES - 1

\* C3 (as claimed): whenever a fetch completes with zero records or fails
\* and the attempt counter is below MAX_RETRIES, the controller is Retrying
\* (processing) and exactly one retry timer is scheduled, also for the fetch
\* of a manual Refresh from the terminal Empty state.
C3_RetryAfterZeroOrFailure ==
    (/\ lastAct = "Respond" /\ lastResp.live
     /\ lastResp.kind \in ZeroOrFailKinds
     /\ retryCount < MAX_RETRIES)
        => (processing /\ Len(timers) = 1)

\* C4: at most one fetch is in flight and at most one retry timer is pending.
C4_OneFetchOneTimer == Len(inflight) <= 1 /\ Len(timers) <= 1

C4_Witness ==
    /\ Mounted /\ Len(timers) = 1 /\ inflight = <<>>
    /\ refreshes = MaxRefresh /\ retryCount = 2
    /\ seen = {"zero", "fail"}

\* C5: a response whose attempt was cancelled before it arrived (the fetch
\* was issued in an earlier epoch than the current one) changes none of
\* data, loading, processing and retryCount.
C5_StaleResponseDiscarded ==
    [][(nResp' = nResp + 1 /\ lastResp'.epoch < epoch')
          => UNCHANGED <<data, loading, processing, retryCount>>]_vars

C5_Witness ==
    /\ lastAct = "Respond" /\ lastResp.epoch < epoch
    /\ lastResp.kind = "ok"
    /\ data = <<>> /\ loading

\* C6 (as claimed): once the attempts are exhausted, the exposed state is
\* Failed when the outcomes were request errors and Empty when they were
\* zero-record answers.
C6_FailedDistinctFromEmpty ==
    (Mounted /\ retryCount = MAX_RETRIES /\ ~loading /\ ~processing /\ data = <<>>) =>
        /\ seen = {"fail"} => ExposedState(State) = "Failed"
        /\ seen = {"zero"} => ExposedState(State) = "Empty"

\* C7: leaving the dashboard (Back, Cancel, Logout) or pressing Refresh
\* leaves no retry timer pending, and once the component is unmounted no
\* fetch is issued any more.
C7_TimerCancelled ==
    [][/\ lastAct' \in {"Back", "Logout", "Refresh"} => timers' = <<>>
       /\ ~Mounted => nFetch' = nFetch]_vars

\* A retry timer was pending when the user left: the last effect run armed
\* a timer (pollTimer), it had not fired (nothing in flight), and it is gone.
C7_Witness ==
    /\ lastAct = "Back" /\ pollTimer # 0 /\ inflight = <<>>
    /\ timers = <<>> /\ processing /\ retryCount = 3

\* C8: 0 <= retryCount <= MAX_RETRIES in every reachable state.
C8_RetryCountBounded == retryCount \in 0..MAX_RETRIES

C8_Witness ==
    /\ retryCount = MAX_RETRIES /\ refreshes = MaxRefresh
    /\ seen = {"zero", "fail"}

\* Side facts used in settling C5 and C7: the Refresh button is offered only
\* when nothing is in flight and no timer is pending.
RefreshOnlyWhenIdle ==
    (Mounted /\ View(State) = "empty") => (inflight = <<>> /\ timers = <<>>)

----------------------------------------------------------------------------
(* Claims about the anomaly detector *)

Amounts(recs) == [i \in 1..Len(recs) |-> recs[i].amountNum]

\* Four amounts of 10 and one of 1000, in any order.
OneDominantOutlier(recs) ==
    /\ Len(recs) = 5
    /\ Cardinality({i \in 1..5 : recs[i].amountNum = F1000}) = 1
    /\ Cardinality({i \in 1..5 : recs[i].amountNum = F10}) = 4

\* C9 (as claimed): for a set with one dominant outlier such as
\* [10,10,10,10,1000], count >= 1 and the outlier record is in top.
C9_OutlierReported ==
    (detPc = "done" /\ OneDominantOutlier(cleanData)) =>
        /\ anomalyMeta.found >= 1
        /\ \E i \in 1..Len(anomalyList.items) : anomalyList.items[i].amountNum = F1000

\* C9 (amended): for the amounts [10,10,10,10,1000], in any order, the
\* detector reports count = 0 and an empty top: the threshold mean + 3 * sd
\* (about 1536) is above the outlier 1000.
C9_OutlierBelowThreshold ==
    (detPc = "done" /\ OneDominantOutlier(cleanData)) =>
        /\ anomalyMeta.found = 0
        /\ anomalyList.items = <<>>
        /\ FLt(F1000, Threshold(D3Mean(cleanData), Deviation(cleanData)))

C9_Witness ==
    /\ detPc = "done"
    /\ Amounts(cleanData) = <<F10, F10, F10, F10, F1000>>
    /\ anomalyMeta.text = "No strong outliers found"
    /\ anomalyList.placeholder

\* The sample standard deviation of the amounts is 0: fewer than two
\* records, or all amounts equal.
ZeroDeviation(recs) ==
    \A i, j \in 1..Len(recs) : recs[i].amountNum = recs[j].amountNum

\* C10 (as claimed): for every canonical set whose sample standard deviation
\* is 0, the detector reports zero anomalies (count = 0, top empty).
C10_ZeroDeviationNoAnomalies ==
    (detPc = "done" /\ ZeroDeviation(cleanData)) =>
        (anomalyMeta.found = 0 /\ anomalyList.items = <<>>)

\* The amount of a record in units of 10, for amounts that are whole
\* multiples of 10.
Tens(x) == (IF x.e >= 0 THEN x.m * 2^(x.e) ELSE x.m \div 2^(-x.e)) \div 10

WholeTens(recs) ==
    \A i \in 1..Len(recs) :
        LET x == recs[i].amountNum
        IN x.s = 1 /\ x.m # 0 /\ FromInt(10 * Tens(x)) = x

RECURSIVE IntSum(_, _)
IntSum(f, n) == IF n = 0 THEN 0 ELSE f[n] + IntSum(f, n - 1)

\* amount_i > mean + 3 * sd in exact arithmetic, sd the sample standard
\* deviation: with S the sum and Q the sum of squares of the n amounts,
\* n * a_i > S and (n * a_i - S)^2 * (n - 1) > 9 * n * (n * Q - S^2).
ExactAbove(recs, i) ==
    LET n == Len(recs)
        a == [j \in 1..n |-> Tens(recs[j].amountNum)]
        S == IntSum(a, n)
        Q == IntSum([j \in 1..n |-> a[j] * a[j]], n)
        d == n * a[i] - S
    IN d > 0 /\ d * d * (n - 1) > 9 * n * (n * Q - S * S)

\* C11: for every canonical set with sd > 0 the detector's count is the
\* number of records whose amount exceeds mean + 3 * sd (sample standard
\* deviation; decided in exact arithmetic where the amounts are whole tens,
\* else against the threshold as computed), and top holds min(3, count) of
\* those records, in descending order of amount, none of the anomalies left
\* out being larger than one that is listed.
C11_AnomaliesExact ==
    (detPc = "done" /\ ~ZeroDeviation(cleanData)) =>
        LET n == Len(cleanData)
            thr == Threshold(D3Mean(cleanData), Deviation(cleanData))
            above == IF WholeTens(cleanData)
                     THEN {i \in 1..n : ExactAbove(cleanData, i)}
                     ELSE {i \in 1..n : FLt(thr, cleanData[i].amountNum)}
            top == anomalyList.items
            count == Cardinality(above)
        IN /\ anomalyMeta.found = count
           /\ Len(top) = (IF count < 3 THEN count ELSE 3)
           /\ \A j \in 1..Len(top) :
                  /\ top[j].transaction_id \in above
                  /\ top[j] = cleanData[top[j].transaction_id]
           /\ \A j, k \in 1..Len(top) :
                  j < k => /\ top[j].transaction_id # top[k].transaction_id
                           /\ ~FLt(top[j].amountNum, top[k].amountNum)
           /\ \A i \in above : \A j \in 1..Len(top) :
                  (\A k \in 1..Len(top) : top[k].transaction_id # i)
                      => ~FLt(top[j].amountNum, cleanData[i].amountNum)
           /\ count > 0 => anomalyMeta.threshold = thr

\* Four anomalies of two different amounts, three of them listed.
C11_Witness ==
    /\ detPc = "done" /\ ~ZeroDeviation(cleanData)
    /\ anomalyMeta.found = 4
    /\ Amounts(anomalyList.items) = <<F1000, F1000, F990>>

----------------------------------------------------------------------------
(* Claims about normalization and the views *)

\* The dashboard view is rendered, so the recompute effect has drawn it.
Shown == Mounted /\ View(State) = "dashboard"

Labels(bars) == [i \in 1..Len(bars) |-> bars[i].label]

\* C12 (as claimed): for every canonical set the time-bucket rollup has
\* exactly four entries, in the order Night, Morning, Afternoon, Evening,
\* with total 0 for a bucket that has no records.
C12_FourBuckets ==
    Shown =>
        /\ Labels(barChart) = Order
        /\ \A i \in 1..Len(barChart) :
               (\A j \in 1..Len(cleanData) : cleanData[j].timeBucket # barChart[i].label)
                   => barChart[i].total = FZero

\* A number that is neither NaN nor an infinity.
IsFinite(x) == ~IsNaN(x) /\ ~IsInf(x)

\* C13 (as claimed): every record of the canonical set has a finite amount
\* and a valid timestamp.
C13_CanonicalFinite ==
    \A i \in 1..Len(cleanData) :
        IsFinite(cleanData[i].amountNum) /\ cleanData[i].parsedTime.valid

\* The timestamp texts that are a date and time: day 1..31 and a time of day
\* from 00:00 to 24:00.
ValidTimestamp(ts) ==
    /\ ts.kind = "iso"
    /\ ts.day >= 1 /\ ts.day <= 31
    /\ ts.hour >= 0 /\ ts.minute >= 0 /\ ts.minute < 60
    /\ ts.hour * 60 + ts.minute <= 24 * 60

\* The amount texts that are a number in JavaScript: a decimal literal, the
\* empty string (0) and Infinity.
NumericAmount(amt) ==
    amt \in {Txt1250, Txt40, Txt07, Txt10, Txt990, Txt1000, <<>>, TxtInfinity}

ValidRaw(d) == ValidTimestamp(d.timestamp) /\ NumericAmount(d.amount)

\* The fields of a record that the response gave it.
Acquired(recs) ==
    [i \in 1..Len(recs) |->
        [transaction_id |-> recs[i].transaction_id, timestamp |-> recs[i].timestamp,
         amount |-> recs[i].amount, category |-> recs[i].category,
         merchant |-> recs[i].merchant]]

Ahead(i, j) ==
    LET a == cleanData[i].amountNum
        b == cleanData[j].amountNum
    IN \/ IF tableFilter = "highest" THEN FLt(b, a) ELSE FLt(a, b)
       \/ ~FLt(a, b) /\ ~FLt(b, a) /\ i < j

\* The positions of the canonical set that hold the ranking's i-th row.
RowPos(i) == { j \in 1..Len(cleanData) : cleanData[j] = dynamicTable[i] }

Listed == UNION { RowPos(i) : i \in 1..Len(dynamicTable) }

\* C15: in the dashboard view the ranking has min(10, n) rows, each one
\* record of the canonical set, every row is ahead of the rows below it and
\* of every record left out, where ahead means a larger amount (Highest) or a
\* smaller one (Lowest) and, on equal amounts, an earlier canonical position;
\* the ranking is thereby a function of the set and the direction.
C15_StableRanking ==
    Shown =>
        /\ Len(dynamicTable)
               = (IF Len(cleanData) < RankLimit THEN Len(cleanData) ELSE RankLimit)
        /\ \A i \in 1..Len(dynamicTable) : Cardinality(RowPos(i)) = 1
        /\ \A i, k \in 1..Len(dynamicTable) :
               i < k => \A a \in RowPos(i), b \in RowPos(k) : Ahead(a, b)
        /\ \A j \in (1..Len(cleanData)) \ Listed : \A a \in Listed : Ahead(a, j)

\* The Lowest ranking of more than ten records after a toggle, with equal
\* amounts among the rows and a record left out that ties with the last row.
C15_Witness ==
    /\ Shown /\ lastAct = "Toggle" /\ tableFilter = "lowest"
    /\ Len(cleanData) > RankLimit /\ Len(dynamicTable) = RankLimit
    /\ dynamicTable[1].amountNum = dynamicTable[2].amountNum
    /\ \E j \in (1..Len(cleanData)) \ Listed :
           cleanData[j].amountNum = dynamicTable[RankLimit].amountNum

\* The positions at which a category appears for the first time.
CatFirsts ==
    { i \in 1..Len(cleanData) :
          \A j \in 1..(i - 1) : cleanData[j].category # cleanData[i].category }

\* The sum, in canonical order, of the amounts of the first n records whose
\* category is c.
RECURSIVE CatSum(_, _)
CatSum(c, n) ==
    IF n = 0 THEN FZero
    ELSE IF cleanData[n].category = c
         THEN FAdd(CatSum(c, n - 1), cleanData[n].amountNum)
         ELSE CatSum(c, n - 1)

\* The sum of the first n totals of the category rollup.
RECURSIVE SumOfTotals(_)
SumOfTotals(n) ==
    IF n = 0 THEN FZero ELSE FAdd(SumOfTotals(n - 1), pieChart.byCat[n].total)

CalendarDay(r) == r.timestamp.day + (IF r.timestamp.hour = 24 THEN 1 ELSE 0)

Days == { CalendarDay(cleanData[i]) : i \in 1..Len(cleanData) }

\* The sum, in canonical order, of the amounts of the first n records whose
\* calendar day is d.
RECURSIVE DaySum(_, _)
DaySum(d, n) ==
    IF n = 0 THEN FZero
    ELSE IF CalendarDay(cleanData[n]) = d
         THEN FAdd(DaySum(d, n - 1), cleanData[n].amountNum)
         ELSE DaySum(d, n - 1)

\* C17: in the dashboard view the daily rollup has as many entries as the
\* canonical set has calendar days, every entry is the midnight of one of
\* those days with the sum of that day's amounts, whatever the times of day,
\* and the dates of the entries are strictly ascending.
C17_DailyRollup ==
    Shown =>
        /\ Len(lineChart) = Cardinality(Days)
        /\ \A k \in 1..Len(lineChart) :
               \E d \in Days :
                   /\ lineChart[k].date = (d - 1) * 1440
                   /\ lineChart[k].total = DaySum(d, Len(cleanData))
        /\ \A k \in 1..(Len(lineChart) - 1) : lineChart[k].date < lineChart[k + 1].date

\* The later of two days comes first in the canonical set, and the earlier
\* day has two records at different times of day.
C17_Witness ==
    /\ Shown /\ Len(cleanData) = 3 /\ Len(lineChart) = 2
    /\ CalendarDay(cleanData[1]) > CalendarDay(cleanData[2])
    /\ CalendarDay(cleanData[2]) = CalendarDay(cleanData[3])
    /\ cleanData[2].timeOnly.hour # cleanData[3].timeOnly.hour

\* C18 (as claimed): after the user picks an option of the category select,
\* the scatter shows the whole canonical set for the option All and, for the
\* option of a category c of the category domain, exactly the canonical
\* records whose category is c.
C18_FilterExactMatch ==
    (Shown /\ lastAct = "Select") =>
        IF scatter.option = 0
        THEN scatter.points = cleanData
        ELSE scatter.points
                 = SelectSeq(cleanData,
                             LAMBDA d : d.category = scatter.categories[scatter.option])

\* The hour of the day a timestamp text denotes (24:00 is the hour 0).
HourWritten(r) == r.timestamp.hour % 24

\* C19: every canonical record has an hour h in 0..23 and the time bucket
\* Night for 0 <= h < 6, Morning for 6 <= h < 12, Afternoon for 12 <= h < 18
\* and Evening for 18 <= h < 24, and never another bucket.
C19_HourToBucket ==
    \A i \in 1..Len(cleanData) :
        LET h == HourWritten(cleanData[i])
            bucket == cleanData[i].timeBucket
        IN /\ cleanData[i].timeOnly.hour = h
           /\ h \in 0..23
           /\ (0 <= h /\ h < 6) => bucket = "Night"
           /\ (6 <= h /\ h < 12) => bucket = "Morning"
           /\ (12 <= h /\ h < 18) => bucket = "Afternoon"
           /\ (18 <= h /\ h < 24) => bucket = "Evening"
           /\ bucket \in {"Night", "Morning", "Afternoon", "Evening"}

\* A canonical record at 18:30, the first hour of Evening.
C19_Witness ==
    /\ Len(cleanData) = 1
    /\ cleanData[1].timestamp.hour = 18 /\ cleanData[1].timestamp.minute = 30
    /\ cleanData[1].timeBucket = "Evening"

Handles(ts) == { ts[i].id : i \in 1..Len(ts) }

\* C21: a successful response with one or more raw records, delivered to the
\* mounted component, leaves the controller Ready with the records as data,
\* the attempt counter as it was and no retry timer armed that was not
\* pending before, whether or not normalization drops some or all of them.
C21_MalformedNoEffect ==
    [][(/\ lastAct' = "Respond" /\ lastResp'.live
        /\ lastResp'.kind = "ok" /\ Len(lastResp'.txns) > 0)
          => /\ ExposedState(State') = "Ready"
             /\ data' = Transform(lastResp'.txns)
             /\ retryCount' = retryCount
             /\ pollTimer' = 0
             /\ Handles(timers') \subseteq Handles(timers)]_vars

\* The answer to a retry carried two records, both malformed: the controller
\* is Ready with the counter of that retry and an empty canonical set.
C21_Witness ==
    /\ lastAct = "Respond" /\ lastResp.live /\ lastResp.isRetry
    /\ lastResp.txns = PayloadC
    /\ ExposedState(State) = "Ready" /\ retryCount > 0
    /\ Len(data) = 2 /\ cleanData = <<>>

\* The six views on the page.
SixViews ==
    <<pieChart, lineChart, barChart, scatter.categories, scatter.points,
      dynamicTable, anomalyMeta, anomalyList>>

\* The views other than the point set of the scatter.
ViewsButPoints ==
    <<pieChart, lineChart, barChart, scatter.categories, dynamicTable,
      anomalyMeta, anomalyList>>

\* The order of recomputation: category rollup, daily rollup, time-bucket
\* rollup, category domain and point set, ranking, anomaly result.
FixedOrder ==
    <<"buildPie", "buildLine", "buildTimeBuckets", "buildScatter",
      "buildTopAndLowTables", "buildAnomalies">>

\* While the dashboard is shown, every view but the point set is the one its
\* builder gives for the current canonical set and ranking direction, and
\* the point set is the whole canonical set whenever the builders drew last.
ViewsCurrent ==
    Shown =>
        /\ cleanData = SelectSeq(ForEachDerive(data), Keep)
        /\ pieChart = BuildPie(cleanData)
        /\ lineChart = BuildLine(cleanData)
        /\ barChart = BuildTimeBuckets(cleanData)
        /\ scatter.categories = CategoryDomain(cleanData)
        /\ dynamicTable = BuildTopAndLowTables(cleanData, tableFilter)
        /\ anomalyMeta = AnomalyView(cleanData).meta
        /\ anomalyList = AnomalyView(cleanData).list
        /\ drawn = FixedOrder => scatter.points = cleanData

\* The last step was a recompute: the six builders drew, in their fixed order.
RecomputedInFull == drawn = FixedOrder /\ lastAct \in {"Respond", "Toggle"}

\* The record set or the ranking direction changes, the set being non-empty.
InputChanges == (data' # data \/ tableFilter' # tableFilter) /\ Len(data') > 0

\* C22 (as claimed): a step that changes the record set or the ranking
\* direction recomputes all six views in the fixed order, each from the new
\* canonical set and direction, and a step that changes any of the six views
\* is such a full recompute.
C22_TotalRecompute ==
    /\ []ViewsCurrent
    /\ [][/\ InputChanges => RecomputedInFull'
          /\ SixViews' # SixViews => RecomputedInFull']_vars

\* C22 (amended): a step that changes the record set or the ranking
\* direction recomputes all six views in the fixed order, each from the new
\* canonical set and direction; a step that changes a view other than the
\* point set is such a full recompute; the point set alone is also redrawn
\* by the change handler of the category select.
C22_TotalButFilter ==
    /\ []ViewsCurrent
    /\ [][/\ InputChanges => RecomputedInFull'
          /\ ViewsButPoints' # ViewsButPoints => RecomputedInFull'
          /\ scatter.points' # scatter.points =>
                 \/ RecomputedInFull'
                 \/ lastAct' = "Select" /\ drawn' = <<"renderScatter">>]_vars

\* A toggle after the category select was used: everything was redrawn, in
\* order, and the ranking is that of the new direction.
C22_Witness ==
    /\ Shown /\ lastAct = "Toggle" /\ tableFilter = "lowest"
    /\ scatter.option # 0 /\ RecomputedInFull /\ scatter.points = cleanData
    /\ Len(dynamicTable) = 2
    /\ dynamicTable # BuildTopAndLowTables(cleanData, "highest")

\* C23 (as claimed): after a recompute the records the data state holds,
\* which the recompute was given, have the fields and the values they had
\* when they were acquired, in the same order.
C23_InputUntouched ==
    Shown =>
        /\ Len(derived) = Len(data)
        /\ \A i \in 1..Len(data) :
               /\ DOMAIN derived[i] = DOMAIN data[i]
               /\ \A f \in DOMAIN data[i] : derived[i][f] = data[i][f]

\* C24 (as claimed): for every canonical set of at most 10 records the
\* detector reports no anomaly, whatever the amounts.
C24_SmallSampleNoAnomalies ==
    (detPc = "done" /\ Len(cleanData) <= 10) =>
        (anomalyMeta.found = 0 /\ anomalyList.placeholder)

\* The loading view is shown: the controller is Loading or Retrying.
Busy == Mounted /\ ExposedState(State) \in {"Loading", "Retrying"}

\* The controller is Ready or in the terminal Empty state.
Settled == ExposedState(State) \in {"Ready", "Empty"}

\* C25: if every fetch is answered and every armed timer fires, then from
\* any state that shows the loading view (after the start, a manual Refresh
\* or a late response) the controller reaches Ready or the terminal Empty
\* state, unless the user leaves the page first.
C25_EventuallySettles == Busy ~> (Settled \/ ~Mounted)

\* The terminal Empty state after a manual Refresh, the responses so far
\* having been failures and empty answers.
C25_Witness ==
    /\ Mounted /\ IsEmpty(State) /\ refreshes > 0
    /\ seen = {"fail", "zero"} /\ inflight = <<>> /\ timers = <<>>

\* C26 (as claimed): after a toggle of the ranking direction the scatter
\* shows the records of the category the category select has selected (all
\* records when its value is All).
C26_FilterSurvivesToggle ==
    (Shown /\ lastAct = "Toggle") =>
        scatter.points
            = (IF scatter.selected = "All" THEN cleanData
               ELSE SelectSeq(cleanData, LAMBDA d : d.category = scatter.selected))

\* The user is logged out and callbacks of a status poll are still pending:
\* uploadStatus is set by checkStatus alone and keeps its value once
\* DashboardHome is unmounted, so it is set when the logout came after the
\* first status request.
LoggedOutWhilePolling ==
    currentPage = "login" /\ uploadStatus # "" /\ uploadPending # "none"

\* C27 (as claimed): once the user has logged out while the status of an
\* upload is polled, no pending callback changes the page: it stays 'login'.
C27_LoginStays == [][LoggedOutWhilePolling => currentPage' = "login"]_vars

\* The view that goes with an error of fetchAllData.
ErrorView(e) == IF e = "no_user" THEN "Session Expired" ELSE "Error Loading Data"

\* C28 (as claimed): once fetchAllData has ended with the error
\* 'network_error', 'fetch_error' or 'no_user', the rendered view is the
\* error view that goes with it, on the first load and on later refreshes.
C28_ErrorViewShown ==
    (VisualMounted /\ ~visLoading /\ error \in {"network_error", "fetch_error", "no_user"})
        => VisualView = ErrorView(error)

\* The sum of the first n totals of a rollup, added one after the other.
RECURSIVE TotalsUpTo(_, _)
TotalsUpTo(rollup, n) ==
    IF n = 0 THEN FZero ELSE FAdd(TotalsUpTo(rollup, n - 1), rollup[n].total)

\* The sum of the amounts of the first n canonical records, added one after
\* the other.
RECURSIVE AmountsUpTo(_)
AmountsUpTo(n) ==
    IF n = 0 THEN FZero ELSE FAdd(AmountsUpTo(n - 1), cleanData[n].amountNum)

C30_ToggleChangesRankingOnly ==
    [][lastAct' = "Toggle" =>
           /\ UNCHANGED <<data, loading, processing, retryCount, inflight, nFetch>>
           /\ UNCHANGED <<pieChart, lineChart, barChart, anomalyMeta, anomalyList>>
           /\ scatter'.categories = scatter.categories
           /\ scatter'.points = scatter.points]_vars

====
